---- MODULE Spec2Model ----
(***************************************************************************)
(* Model of the OpenRouter testing client: the request engine              *)
(* (ApiClient.make_api_request and its two response handlers), the         *)
(* continuous run controller (start/stop_continuous_requests and the       *)
(* run_requests thread), the usage accumulator (TokenUsage), the settings  *)
(* singleton (Config) and the parts of the GUI (App, InputPanel) that      *)
(* call the engine.                                                        *)
(*                                                                         *)
(* Every read or write of a field shared between threads is one step of    *)
(* the thread that makes it; code between two such accesses belongs to     *)
(* the step of the access that follows it.                                 *)
(***************************************************************************)
EXTENDS Integers, Sequences, FiniteSets, TLC

\* ------------------------------------------------------------------ bounds
\* run_requests threads ever spawned
MaxLoops == 2
\* requests issued by run_requests threads, all threads together
MaxCalls == 2
\* one-shot requests: _make_request threads ever spawned
MaxSends == 2
\* the same two, where the GUI is explored with them
MaxAppLoops == 1
MaxAppSends == 1
\* direct calls of TokenUsage.update between two resets, and the largest
\* token count passed in one
MaxUpdates == 3
MaxTokens == 2
MaxCostCalls == 2
MaxCostUpdates == 2

VARIABLES
    is_running,      \* ApiClient.is_running
    should_stop,     \* ApiClient.should_stop
    loops,           \* the run_requests threads: locals and position
    oneshots,        \* the _make_request threads: locals and position
    config,          \* Config._config (the keys the engine and GUI read)
    config_file,     \* the contents of ~/.openrouter_client/config.json
    token_usage,     \* TokenUsage: input_tokens, output_tokens, call_count
    status_text,     \* the last string pushed through _update_status
    send_button,     \* InputPanel.send_button state
    start_stop_button, \* App.start_stop_button: state and text
    continuous_var,  \* App.continuous_var
    use_default_var, \* InputPanel.use_default_var
    prompt_text,     \* InputPanel.prompt_text contents
    response_panel,  \* what ResponsePanel shows
    issued,          \* history: loop requests in the order they were issued
    delivered,       \* history: loop requests in the order the callback got them
    start_ignored,   \* history: a start call returned at the is_running guard
    fed,             \* history: the (p, c) pairs given to TokenUsage.update
                     \* directly, since the accumulator was fresh or reset
    costs            \* history: the values calculate_cost has returned

vars == <<is_running, should_stop, loops, oneshots, config, config_file,
          token_usage, status_text, send_button, start_stop_button,
          continuous_var, use_default_var, prompt_text, response_panel,
          issued, delivered, start_ignored, fed, costs>>

gui_vars == <<send_button, start_stop_button, continuous_var,
              use_default_var, prompt_text, response_panel>>

history_vars == <<issued, delivered, start_ignored, fed, costs>>

engine_vars == <<config, config_file, token_usage, status_text>>

\* ------------------------------------------------------------- characters
\* A word of an error message is a sequence of one-character strings.
Afford == <<"a", "f", "f", "o", "r", "d">>

Digits == {"0", "1", "2", "3", "4", "5", "6", "7", "8", "9"}

DigitVal(c) ==
    CASE c = "0" -> 0 [] c = "1" -> 1 [] c = "2" -> 2 [] c = "3" -> 3
      [] c = "4" -> 4 [] c = "5" -> 5 [] c = "6" -> 6 [] c = "7" -> 7
      [] c = "8" -> 8 [] c = "9" -> 9

\* str.rstrip('.,:;')
RECURSIVE rstrip(_)
rstrip(w) ==
    IF Len(w) > 0 /\ w[Len(w)] \in {".", ",", ":", ";"}
    THEN rstrip(SubSeq(w, 1, Len(w) - 1))
    ELSE w

\* int(s) accepts an optional sign followed by decimal digits
IsIntLiteral(w) ==
    LET d == IF Len(w) > 0 /\ w[1] \in {"+", "-"} THEN Tail(w) ELSE w
    IN  Len(d) > 0 /\ \A i \in 1..Len(d) : d[i] \in Digits

RECURSIVE DigitsVal(_)
DigitsVal(d) ==
    IF Len(d) = 0 THEN 0
    ELSE 10 * DigitsVal(SubSeq(d, 1, Len(d) - 1)) + DigitVal(d[Len(d)])

IntOf(w) ==
    IF w[1] = "-" THEN 0 - DigitsVal(Tail(w))
    ELSE IF w[1] = "+" THEN DigitsVal(Tail(w))
    ELSE DigitsVal(w)

\* sub in word, for Python's substring test on one whitespace-free word
Contains(word, sub) ==
    \E i \in 0..(Len(word) - Len(sub)) :
        SubSeq(word, i + 1, i + Len(sub)) = sub


\* ------------------------------------------------------------ JSON values
\* A JSON value where the code expects a number: a number, null (or any other
\* non-number), or the key missing.
JInt(n) == [t |-> "int", v |-> n]
JNull == [t |-> "null", v |-> 0]
JAbsent == [t |-> "absent", v |-> 0]
JStr == [t |-> "str", v |-> 0]

\* dict.get(key, 0): the default only when the key is missing
GetOr0(j) == IF j.t = "absent" THEN JInt(0) ELSE j

\* ------------------------------------------------------ usage accumulator
TokenUsageInit == [input_tokens |-> 0, output_tokens |-> 0, call_count |-> 0]

\* TokenUsage.update, a statement at a time: `x += y` raises TypeError, leaving
\* x alone, when y is no number; the statements before it have taken effect.
update_skips_count(tu, prompt_tokens, completion_tokens) ==
    IF prompt_tokens.t # "int" THEN [tu |-> tu, raised |-> TRUE]
    ELSE IF completion_tokens.t # "int"
    THEN [tu |-> [tu EXCEPT !.input_tokens = @ + prompt_tokens.v], raised |-> TRUE]
    ELSE [tu |-> [tu EXCEPT !.input_tokens = @ + prompt_tokens.v,
                            !.output_tokens = @ + completion_tokens.v],
          raised |-> FALSE]

update(tu, prompt_tokens, completion_tokens) ==
    IF prompt_tokens.t # "int" THEN [tu |-> tu, raised |-> TRUE]
    ELSE IF completion_tokens.t # "int"
    THEN [tu |-> [tu EXCEPT !.input_tokens = @ + prompt_tokens.v], raised |-> TRUE]
    ELSE [tu |-> [input_tokens |-> tu.input_tokens + prompt_tokens.v,
                  output_tokens |-> tu.output_tokens + completion_tokens.v,
                  call_count |-> tu.call_count + 1],
          raised |-> FALSE]

\* TokenUsage.reset
reset_keeps_call_count(tu) ==
    [input_tokens |-> 0, output_tokens |-> 0, call_count |-> tu.call_count]

reset(tu) == [input_tokens |-> 0, output_tokens |-> 0, call_count |-> 0]

\* TokenUsage.calculate_cost: tokens / 1_000_000 * price for each direction,
\* added. The dollar amount is held as the exact number of millionths of a
\* dollar, the prices being whole dollars per million tokens.
calculate_cost_at_default_prices(tu, cfg) ==
    tu.input_tokens * 150 + tu.output_tokens * 600

calculate_cost(tu, cfg) ==
    tu.input_tokens * cfg.input_price_per_million
      + tu.output_tokens * cfg.output_price_per_million

\* --------------------------------------------------------------- settings
\* Config.DEFAULT_CONFIG, the keys the model reads. request_delay_seconds is
\* held in hundredths of a second, a prompt as a sequence of characters,
\* max_tokens as the JSON value load_config or Config.set stored, the prices
\* in dollars per million tokens.
DEFAULT_CONFIG ==
    [api_key |-> "",
     model |-> "openai/o1-pro",
     system_prompt |-> "You are a helpful assistant.",
     max_tokens |-> JInt(0),
     request_delay_seconds |-> 100,
     refractory_seconds |-> 300,
     input_price_per_million |-> 150,
     output_price_per_million |-> 600,
     default_user_prompt |-> <<"e", "s", "s", "a", "y">>]

\* Config.set on a key of DEFAULT_CONFIG
set_max_tokens(cfg, value) == [cfg EXCEPT !.max_tokens = value]

\* Config.save_config: the file takes the whole table
save_config(cfg) == cfg

\* ----------------------------------------------------------------- engine
\* The engine's view of the process: settings, settings file, accumulator and
\* status channel; make_api_request maps one such record to the next.
EngineState ==
    [config |-> config, config_file |-> config_file,
     token_usage |-> token_usage, status_text |-> status_text]

Result(success, content) == [success |-> success, content |-> content]

\* line 67: `max_tokens > 0` raises TypeError when max_tokens is no number;
\* the statement is outside the try of make_api_request
PayloadRaises(cfg) == cfg.max_tokens.t # "int"

\* lines 57-68: the payload; max_tokens is a field only when it is positive
BuildPayload_sends_zero_cap(cfg, prompt) ==
    [model |-> cfg.model,
     system_prompt |-> cfg.system_prompt,
     prompt |-> prompt,
     has_max_tokens |-> cfg.max_tokens.v >= 0,
     max_tokens |-> IF cfg.max_tokens.v > 0 THEN cfg.max_tokens.v ELSE 0]

BuildPayload(cfg, prompt) ==
    [model |-> cfg.model,
     system_prompt |-> cfg.system_prompt,
     prompt |-> prompt,
     has_max_tokens |-> cfg.max_tokens.v > 0,
     max_tokens |-> IF cfg.max_tokens.v > 0 THEN cfg.max_tokens.v ELSE 0]

\* lines 151-158: one iteration of the for loop over the words: a word equal
\* to "afford" that has a successor whose rstrip parses as an int sets and
\* saves max_tokens; ValueError from int() is passed over.
AffordStep_without_rstrip(words, i, e) ==
    IF words[i] = Afford /\ i + 1 <= Len(words) /\ IsIntLiteral(words[i + 1])
    THEN LET cfg == set_max_tokens(e.config, JInt(IntOf(words[i + 1])))
         IN  [e EXCEPT !.status_text = "Updated max_tokens to",
                       !.config = cfg,
                       !.config_file = save_config(cfg)]
    ELSE e

AffordStep_takes_any_word(words, i, e) ==
    IF words[i] = Afford /\ i + 1 <= Len(words)
    THEN LET w == rstrip(words[i + 1])
             cfg == set_max_tokens(e.config,
                        JInt(IF IsIntLiteral(w) THEN IntOf(w) ELSE 0))
         IN  [e EXCEPT !.status_text = "Updated max_tokens to",
                       !.config = cfg,
                       !.config_file = save_config(cfg)]
    ELSE e

AffordStep(words, i, e) ==
    IF words[i] = Afford /\ i + 1 <= Len(words)
          /\ IsIntLiteral(rstrip(words[i + 1]))
    THEN LET cfg == set_max_tokens(e.config, JInt(IntOf(rstrip(words[i + 1]))))
         IN  [e EXCEPT !.status_text = "Updated max_tokens to",
                       !.config = cfg,
                       !.config_file = save_config(cfg)]
    ELSE e

\* lines 149-158: the loop over all the words; a later match overwrites an
\* earlier one
RECURSIVE AffordScan(_, _, _)
AffordScan(words, i, e) ==
    IF i > Len(words) THEN e
    ELSE AffordScan(words, i + 1, AffordStep(words, i, e))

\* "afford" in err_message
MentionsAfford(words) == \E i \in 1..Len(words) : Contains(words[i], Afford)

\* ApiClient._handle_successful_response (lines 102-160). A body has
\*   choices: "absent", "empty", or the shape of choices[0]:
\*            "no_message", "no_content", "ok";
\*   prompt_tokens, completion_tokens: JSON values of usage;
\*   has_error, error_words: the error object's message, split into words.
ChoicesUsable(body) == body.choices \notin {"absent", "empty"}

_handle_successful_response(e, body) ==
    IF ChoicesUsable(body)
    THEN LET u == update(e.token_usage, GetOr0(body.prompt_tokens),
                         GetOr0(body.completion_tokens))
         IN  IF u.raised
             THEN \* TypeError, caught at line 97
                  [e |-> [e EXCEPT !.token_usage = u.tu,
                                   !.status_text = "An unexpected error occurred"],
                   result |-> Result(FALSE, "None")]
             ELSE [e |-> [e EXCEPT !.token_usage = u.tu,
                                   !.status_text = "Response received successfully."],
                   result |-> Result(TRUE,
                       IF body.choices = "ok" THEN "content"
                       ELSE "No content found in response.")]
    ELSE LET e1 == [e EXCEPT !.status_text = "Unexpected response format."]
             e2 == IF body.has_error /\ MentionsAfford(body.error_words)
                   THEN AffordScan(body.error_words, 1, e1)
                   ELSE e1
         IN  [e |-> e2, result |-> Result(FALSE, "None")]

\* ApiClient._handle_request_exception (lines 162-199); status 0: the
\* exception carries no response
handle_402_without_save(e) ==
    [e |-> [e EXCEPT !.status_text = "Inflicted damage",
                     !.config = set_max_tokens(e.config, JInt(0))],
     result |-> Result(FALSE, "API credits exhausted (402)")]

handle_402(e) ==
    LET cfg == set_max_tokens(e.config, JInt(0))
    IN  [e |-> [e EXCEPT !.status_text = "Inflicted damage",
                         !.config = cfg,
                         !.config_file = save_config(cfg)],
         result |-> Result(FALSE, "API credits exhausted (402)")]

exception_clears_max_tokens_on_401(e, status) ==
    IF status \in {401, 402, 403} THEN handle_402(e)
    ELSE [e |-> [e EXCEPT !.status_text = "Request failed"],
          result |-> Result(FALSE, "Request error")]

_handle_request_exception(e, status) ==
    IF status = 402 THEN handle_402(e)
    ELSE IF status \in {401, 403}
    THEN [e |-> [e EXCEPT !.status_text = "Authentication/Authorization failed."],
          result |-> Result(FALSE, "Authentication failed")]
    ELSE [e |-> [e EXCEPT !.status_text = "Request failed"],
          result |-> Result(FALSE, "Request error")]

\* make_api_request from the POST's outcome on (lines 72-100). A response r has
\*   status: 0 when the transport raised (connection error, timeout), else the
\*           HTTP status;
\*   decode: "ok", or the class response.json() raises: the requests library's
\*           own JSONDecodeError (a RequestException) or json.JSONDecodeError;
\*   body:   the parsed body.
\* raise_for_status raises HTTPError, a RequestException, for a status of 400
\* and above; a 3xx status that requests.post hands back (a redirect it does
\* not follow) passes it like a 2xx.
Respond_reads_body_of_errors(e, r) ==
    IF r.status = 0 \/ (r.status >= 400 /\ r.body.choices = "absent" /\ ~r.body.has_error)
    THEN _handle_request_exception(e, r.status)
    ELSE IF r.decode = "RequestsJSONDecodeError"
    THEN _handle_request_exception(e, 0)
    ELSE IF r.decode = "JSONDecodeError"
    THEN [e |-> [e EXCEPT !.status_text = "Failed to decode JSON response."],
          result |-> Result(FALSE, "None")]
    ELSE _handle_successful_response(e, r.body)

Respond(e, r) ==
    IF r.status = 0 \/ r.status >= 400
    THEN _handle_request_exception(e, r.status)
    ELSE IF r.decode = "RequestsJSONDecodeError"
    THEN _handle_request_exception(e, 0)
    ELSE IF r.decode = "JSONDecodeError"
    THEN [e |-> [e EXCEPT !.status_text = "Failed to decode JSON response."],
          result |-> Result(FALSE, "None")]
    ELSE _handle_successful_response(e, r.body)


\* ------------------------------------------------------- thread records
NoPayload ==
    [model |-> "", system_prompt |-> "", prompt |-> <<>>,
     has_max_tokens |-> FALSE, max_tokens |-> 0]

NoBody ==
    [choices |-> "absent", prompt_tokens |-> JAbsent,
     completion_tokens |-> JAbsent, has_error |-> FALSE, error_words |-> <<>>]

NoResponse == [status |-> 0, decode |-> "none", body |-> NoBody]

NoResult == Result(FALSE, "unset")

\* A run_requests thread: its position, the locals call_count, prompt and
\* delay, the for loop's remaining iterations, the time.sleep calls made since its last
\* request, the locals of the make_api_request it is in, the result it
\* unpacked from the last one; and, as history, the requests.post calls of
\* its latest make_api_request, the number of "Continuous requests stopped."
\* it has emitted, whether it has read should_stop as True, and the requests
\* it began while should_stop was True. pc "raised": an exception has ended
\* the thread.
LoopUnborn ==
    [pc |-> "unborn", call_count |-> 0, prompt |-> <<>>, delay |-> 0,
     ticks |-> 0, slept |-> 0,
     payload |-> NoPayload, response |-> NoResponse, result |-> NoResult,
     posts |-> 0, stopped_msgs |-> 0, saw_stop |-> FALSE, after_stop |-> 0,
     reg |-> 0]

\* A _make_request thread. reg, in both kinds of thread: the value the
\* thread holds between the read and the write of an augmented assignment.
OneShotUnborn ==
    [pc |-> "unborn", prompt |-> <<>>, slept |-> 0, posts |-> 0,
     payload |-> NoPayload, response |-> NoResponse, result |-> NoResult,
     reg |-> 0]

\* the threads a specification provides for
LoopIds == DOMAIN loops
SendIds == DOMAIN oneshots

Spawned == {l \in LoopIds : loops[l].pc # "unborn"}

\* the loops that have been spawned and have not yet set is_running to False
ActiveLoops == {l \in LoopIds : loops[l].pc \notin {"unborn", "stopped", "done"}}

\* the threads inside requests.post
LoopsInFlight == {l \in LoopIds : loops[l].pc = "inflight"}
SendsInFlight == {i \in SendIds : oneshots[i].pc = "inflight"}

\* --------------------------------------------------------------- responses
OkBody(p, c) ==
    [choices |-> "ok", prompt_tokens |-> p, completion_tokens |-> c,
     has_error |-> FALSE, error_words |-> <<>>]

Http(status) == [status |-> status, decode |-> "ok", body |-> NoBody]

Transport == [status |-> 0, decode |-> "ok", body |-> NoBody]

Ok200(body) == [status |-> 200, decode |-> "ok", body |-> body]

\* what the server answers in the controller and GUI specifications
LoopResponses == {Ok200(OkBody(JInt(1), JInt(1))), Http(402), Http(401)}

\* ------------------------------------------------------------ GUI callback
\* App._handle_response, the result callback of both paths
_handle_response(result) ==
    /\ response_panel' = IF result.success THEN "response" ELSE "error"
    /\ status_text' = IF result.success THEN "Response received"
                      ELSE "Error: Request failed"
    /\ send_button' = "normal"

\* ------------------------------------------------- continuous controller
\* ApiClient.start_continuous_requests(prompt, self._handle_response)
start_unguarded(prompt) ==
    /\ Cardinality(Spawned) < Cardinality(LoopIds)
    /\ is_running' = TRUE
    /\ should_stop' = FALSE
    /\ loops' = [loops EXCEPT ![Cardinality(Spawned) + 1] =
                    [LoopUnborn EXCEPT !.pc = "while", !.prompt = prompt]]
    /\ UNCHANGED start_ignored

start_keeps_stop_flag(prompt) ==
    IF is_running
    THEN /\ start_ignored' = TRUE
         /\ UNCHANGED <<is_running, should_stop, loops>>
    ELSE /\ Cardinality(Spawned) < Cardinality(LoopIds)
         /\ is_running' = TRUE
         /\ loops' = [loops EXCEPT ![Cardinality(Spawned) + 1] =
                         [LoopUnborn EXCEPT !.pc = "while", !.prompt = prompt]]
         /\ UNCHANGED <<start_ignored, should_stop>>

start_continuous_requests(prompt) ==
    IF is_running
    THEN /\ start_ignored' = TRUE
         /\ UNCHANGED <<is_running, should_stop, loops>>
    ELSE /\ Cardinality(Spawned) < Cardinality(LoopIds)
         /\ is_running' = TRUE
         /\ should_stop' = FALSE
         /\ loops' = [loops EXCEPT ![Cardinality(Spawned) + 1] =
                         [LoopUnborn EXCEPT !.pc = "while", !.prompt = prompt]]
         /\ UNCHANGED start_ignored

\* ApiClient.stop_continuous_requests
stop_marks_idle ==
    /\ should_stop' = TRUE
    /\ is_running' = FALSE
    /\ status_text' = "Stopping continuous requests..."

stop_continuous_requests ==
    /\ should_stop' = TRUE
    /\ status_text' = "Stopping continuous requests..."
    /\ UNCHANGED is_running

\* -------------------------------------------------- run_requests, by step
\* line 219: the while test
LoopWhile_ignores_flag(l) ==
    /\ loops[l].pc = "while"
    /\ Len(issued) < MaxCalls
    /\ loops' = [loops EXCEPT ![l].pc = "call"]
    /\ UNCHANGED <<is_running, should_stop, oneshots, engine_vars, gui_vars,
                   history_vars>>

LoopWhile(l) ==
    /\ loops[l].pc = "while"
    /\ IF should_stop
       THEN loops' = [loops EXCEPT ![l].pc = "exit", ![l].saw_stop = TRUE]
       ELSE /\ Len(issued) < MaxCalls
            /\ loops' = [loops EXCEPT ![l].pc = "call"]
    /\ UNCHANGED <<is_running, should_stop, oneshots, engine_vars, gui_vars,
                   history_vars>>

\* lines 220-223 and 56-70: count, "Making call #N", build the payload from
\* the settings, "Sending request to ...", and post
LoopCall_caps_first_call_only(l) ==
    /\ loops[l].pc = "call"
    /\ IF PayloadRaises(config)
       THEN /\ loops' = [loops EXCEPT ![l].pc = "raised",
                                      ![l].call_count = @ + 1]
            /\ status_text' = "Making call"
            /\ UNCHANGED issued
       ELSE /\ loops' = [loops EXCEPT
                            ![l].pc = "inflight",
                            ![l].call_count = @ + 1,
                            ![l].slept = 0,
                            ![l].posts = 1,
                            ![l].payload =
                                BuildPayload(
                                    IF loops[l].call_count = 0 THEN config
                                    ELSE [config EXCEPT !.max_tokens = JInt(0)],
                                    loops[l].prompt),
                            ![l].after_stop = IF should_stop THEN @ + 1 ELSE @]
            /\ status_text' = "Sending request to"
            /\ issued' = Append(issued, <<l, loops[l].call_count + 1>>)
    /\ UNCHANGED <<is_running, should_stop, oneshots, config, config_file,
                   token_usage, gui_vars, delivered, start_ignored, fed,
                   costs>>

LoopCall(l) ==
    /\ loops[l].pc = "call"
    /\ IF PayloadRaises(config)
       THEN /\ loops' = [loops EXCEPT ![l].pc = "raised",
                                      ![l].call_count = @ + 1]
            /\ status_text' = "Making call"
            /\ UNCHANGED issued
       ELSE /\ loops' = [loops EXCEPT
                            ![l].pc = "inflight",
                            ![l].call_count = @ + 1,
                            ![l].slept = 0,
                            ![l].posts = 1,
                            ![l].payload = BuildPayload(config, loops[l].prompt),
                            ![l].after_stop = IF should_stop THEN @ + 1 ELSE @]
            /\ status_text' = "Sending request to"
            /\ issued' = Append(issued, <<l, loops[l].call_count + 1>>)
    /\ UNCHANGED <<is_running, should_stop, oneshots, config, config_file,
                   token_usage, gui_vars, delivered, start_ignored, fed,
                   costs>>

\* lines 74-100: the POST returns or raises, and make_api_request returns
LoopReturn(l, r) ==
    /\ loops[l].pc = "inflight"
    /\ LET out == Respond(EngineState, r)
       IN  /\ config' = out.e.config
           /\ config_file' = out.e.config_file
           /\ token_usage' = out.e.token_usage
           /\ status_text' = out.e.status_text
           /\ loops' = [loops EXCEPT ![l].pc = "callback",
                                     ![l].response = r,
                                     ![l].result = out.result]
    /\ UNCHANGED <<is_running, should_stop, oneshots, gui_vars, history_vars>>

\* line 224: callback(success, content, metadata), in the loop's thread; the
\* locals of make_api_request are gone, the unpacked result stays
LoopCallback_only_on_success(l) ==
    /\ loops[l].pc = "callback"
    /\ IF loops[l].result.success
       THEN /\ _handle_response(loops[l].result)
            /\ delivered' = Append(delivered, <<l, loops[l].call_count>>)
       ELSE UNCHANGED <<response_panel, status_text, send_button, delivered>>
    /\ loops' = [loops EXCEPT ![l].pc = "check"]
    /\ UNCHANGED <<is_running, should_stop, oneshots, config, config_file,
                   token_usage, start_stop_button, continuous_var,
                   use_default_var, prompt_text, issued, start_ignored, fed,
                   costs>>

LoopCallback(l) ==
    /\ loops[l].pc = "callback"
    /\ _handle_response(loops[l].result)
    /\ delivered' = Append(delivered, <<l, loops[l].call_count>>)
    /\ loops' = [loops EXCEPT ![l].pc = "check",
                              ![l].payload = NoPayload,
                              ![l].response = NoResponse]
    /\ UNCHANGED <<is_running, should_stop, oneshots, config, config_file,
                   token_usage, start_stop_button, continuous_var,
                   use_default_var, prompt_text, issued, start_ignored, fed,
                   costs>>

\* lines 226-227: the test after the callback
LoopCheck_breaks_on_failure(l) ==
    /\ loops[l].pc = "check"
    /\ loops' = IF should_stop \/ ~loops[l].result.success
                THEN [loops EXCEPT ![l].pc = "exit", ![l].saw_stop = should_stop]
                ELSE [loops EXCEPT ![l].pc = "delay"]
    /\ UNCHANGED <<is_running, should_stop, oneshots, engine_vars, gui_vars,
                   history_vars>>

LoopCheck(l) ==
    /\ loops[l].pc = "check"
    /\ loops' = IF should_stop
                THEN [loops EXCEPT ![l].pc = "exit", ![l].saw_stop = TRUE]
                ELSE [loops EXCEPT ![l].pc = "delay"]
    /\ UNCHANGED <<is_running, should_stop, oneshots, engine_vars, gui_vars,
                   history_vars>>

\* int(delay * 10), the delay held in hundredths of a second
DelayTicks_rounds_up(delay) == IF delay > 0 THEN (delay + 9) \div 10 ELSE 0

DelayTicks(delay) == IF delay > 0 THEN delay \div 10 ELSE 0

\* lines 230-234: read the delay, "Waiting for ...", enter the for loop
LoopDelay_waits_refractory(l) ==
    /\ loops[l].pc = "delay"
    /\ loops' = [loops EXCEPT
                   ![l].pc = "tick",
                   ![l].delay = config.request_delay_seconds,
                   ![l].ticks =
                       DelayTicks(config.request_delay_seconds)
                       + IF loops[l].result.content = "API credits exhausted (402)"
                         THEN 10 * config.refractory_seconds ELSE 0]
    /\ status_text' = "Waiting for"
    /\ UNCHANGED <<is_running, should_stop, oneshots, config, config_file,
                   token_usage, gui_vars, history_vars>>

LoopDelay(l) ==
    /\ loops[l].pc = "delay"
    /\ loops' = [loops EXCEPT ![l].pc = "tick",
                              ![l].delay = config.request_delay_seconds,
                              ![l].ticks = DelayTicks(config.request_delay_seconds)]
    /\ status_text' = "Waiting for"
    /\ UNCHANGED <<is_running, should_stop, oneshots, config, config_file,
                   token_usage, gui_vars, history_vars>>

\* lines 234-237: one iteration of the for loop, or its end; the delay read
\* is not used again
LoopTick(l) ==
    /\ loops[l].pc = "tick"
    /\ IF loops[l].ticks = 0
       THEN loops' = [loops EXCEPT ![l].pc = "while", ![l].delay = 0]
       ELSE IF should_stop
       THEN loops' = [loops EXCEPT ![l].pc = "while", ![l].ticks = 0,
                                   ![l].delay = 0, ![l].saw_stop = TRUE]
       ELSE loops' = [loops EXCEPT ![l].ticks = @ - 1, ![l].slept = @ + 1]
    /\ UNCHANGED <<is_running, should_stop, oneshots, engine_vars, gui_vars,
                   history_vars>>

\* line 239
LoopExit_keeps_running(l) ==
    /\ loops[l].pc = "exit"
    /\ loops' = [loops EXCEPT ![l].pc = "stopped"]
    /\ UNCHANGED <<is_running, should_stop, oneshots, engine_vars, gui_vars,
                   history_vars>>

LoopExit_resets_stop(l) ==
    /\ loops[l].pc = "exit"
    /\ is_running' = FALSE
    /\ should_stop' = FALSE
    /\ loops' = [loops EXCEPT ![l].pc = "stopped"]
    /\ UNCHANGED <<oneshots, engine_vars, gui_vars, history_vars>>

LoopExit(l) ==
    /\ loops[l].pc = "exit"
    /\ is_running' = FALSE
    /\ loops' = [loops EXCEPT ![l].pc = "stopped"]
    /\ UNCHANGED <<should_stop, oneshots, engine_vars, gui_vars, history_vars>>

\* line 240, and run_requests returns: the thread's unpacked result, its
\* sleeping and its count of requests begun after a stop are over
LoopStopped(l) ==
    /\ loops[l].pc = "stopped"
    /\ status_text' = "Continuous requests stopped."
    /\ loops' = [loops EXCEPT ![l].pc = "done", ![l].stopped_msgs = @ + 1,
                              ![l].result = NoResult, ![l].slept = 0,
                              ![l].after_stop = 0]
    /\ UNCHANGED <<is_running, should_stop, oneshots, config, config_file,
                   token_usage, gui_vars, history_vars>>

\* ------------------------------------- the controller, called directly
Prompts == {<<"h", "i">>}

Delays == {10}

InitCommon ==
    /\ is_running = FALSE
    /\ should_stop = FALSE
    /\ token_usage = TokenUsageInit
    /\ status_text = "Ready"
    /\ send_button = "normal"
    /\ start_stop_button = [state |-> "disabled", text |-> "Start"]
    /\ continuous_var = FALSE
    /\ use_default_var = FALSE
    /\ prompt_text = <<>>
    /\ response_panel = "empty"
    /\ issued = <<>>
    /\ delivered = <<>>
    /\ start_ignored = FALSE
    /\ fed = <<>>
    /\ costs = <<>>

Init ==
    /\ InitCommon
    /\ loops = [l \in 1..MaxLoops |-> LoopUnborn]
    /\ oneshots = [i \in 1..MaxSends |-> OneShotUnborn]
    /\ \E d \in Delays :
          config = [DEFAULT_CONFIG EXCEPT !.api_key = "key",
                                          !.request_delay_seconds = d]
    /\ config_file = config

StartCall ==
    /\ \E p \in Prompts : start_continuous_requests(p)
    /\ UNCHANGED <<oneshots, engine_vars, gui_vars, issued, delivered, fed, costs>>

StopCall ==
    /\ stop_continuous_requests
    /\ UNCHANGED <<loops, oneshots, config, config_file,
                   token_usage, gui_vars, issued, delivered, start_ignored,
                   fed, costs>>

LoopStep(l) ==
    \/ LoopWhile(l)
    \/ LoopCall(l)
    \/ LoopCallback(l)
    \/ LoopCheck(l)
    \/ LoopDelay(l)
    \/ LoopTick(l)
    \/ LoopExit(l)
    \/ LoopStopped(l)

LoopResponse(l) == \E r \in LoopResponses : LoopReturn(l, r)

Next ==
    \/ StartCall
    \/ StopCall
    \/ \E l \in LoopIds : LoopStep(l)
    \/ \E l \in LoopIds : LoopResponse(l)

Spec == Init /\ [][Next]_vars

\* The scheduler runs every thread that can take a step, and every POST
\* returns or times out (request_timeout).
FairSpec ==
    /\ Spec
    /\ \A l \in 1..MaxLoops : WF_vars(LoopStep(l))
    /\ \A l \in 1..MaxLoops : WF_vars(LoopResponse(l))


\* ------------------------------------------------ _make_request, by step
\* app.py line 546 and client.py lines 56-70: the thread enters
\* make_api_request, builds the payload, "Sending request to ...", and posts;
\* an exception from line 67 leaves make_api_request and ends the thread
OneShotBegin(i) ==
    /\ oneshots[i].pc = "spawned"
    /\ IF PayloadRaises(config)
       THEN /\ oneshots' = [oneshots EXCEPT ![i].pc = "raised"]
            /\ UNCHANGED status_text
       ELSE /\ oneshots' = [oneshots EXCEPT ![i].pc = "inflight",
                               ![i].posts = 1,
                               ![i].payload = BuildPayload(config, oneshots[i].prompt)]
            /\ status_text' = "Sending request to"
    /\ UNCHANGED <<is_running, should_stop, loops, config, config_file,
                   token_usage, gui_vars, history_vars>>

\* client.py lines 74-100 and app.py line 549: the POST returns or raises,
\* make_api_request returns, and _handle_response is queued for the main thread
OneShotReturn_retries_after_rewrite(i, r) ==
    /\ oneshots[i].pc = "inflight"
    /\ LET out == Respond(EngineState, r)
       IN  /\ config' = out.e.config
           /\ config_file' = out.e.config_file
           /\ token_usage' = out.e.token_usage
           /\ status_text' = out.e.status_text
           /\ oneshots' =
                 IF out.e.config # config
                 THEN [oneshots EXCEPT
                         ![i].posts = @ + 1,
                         ![i].payload = BuildPayload(out.e.config, oneshots[i].prompt)]
                 ELSE [oneshots EXCEPT ![i].pc = "scheduled",
                                       ![i].response = r,
                                       ![i].result = out.result]
    /\ UNCHANGED <<is_running, should_stop, loops, gui_vars, history_vars>>

OneShotReturn(i, r) ==
    /\ oneshots[i].pc = "inflight"
    /\ LET out == Respond(EngineState, r)
       IN  /\ config' = out.e.config
           /\ config_file' = out.e.config_file
           /\ token_usage' = out.e.token_usage
           /\ status_text' = out.e.status_text
           /\ oneshots' = [oneshots EXCEPT ![i].pc = "scheduled",
                                           ![i].response = r,
                                           ![i].result = out.result]
    /\ UNCHANGED <<is_running, should_stop, loops, gui_vars, history_vars>>

\* ------------------------------------------- the engine, a call at a time
\* words of error messages
W_7dot == <<"7", ".">>
W_abc == <<"a", "b", "c">>
W_unafford == <<"u", "n">> \o Afford
W_5 == <<"5">>
W_minus3 == <<"-", "3">>
W_dot == <<".">>

ErrorBody(words) ==
    [choices |-> "absent", prompt_tokens |-> JAbsent,
     completion_tokens |-> JAbsent, has_error |-> TRUE, error_words |-> words]

EngineBodies ==
    {OkBody(JInt(1), JInt(2)), OkBody(JAbsent, JAbsent),
     OkBody(JInt(1), JNull), OkBody(JNull, JInt(2)),
     OkBody(JInt(0 - 3), JInt(0)),
     [OkBody(JInt(1), JInt(2)) EXCEPT !.choices = "no_message"],
     [OkBody(JInt(1), JInt(2)) EXCEPT !.choices = "no_content"],
     [NoBody EXCEPT !.choices = "empty"],
     NoBody,
     ErrorBody(<<Afford, W_7dot>>),
     ErrorBody(<<Afford, W_abc>>),
     ErrorBody(<<W_unafford, W_5>>),
     ErrorBody(<<Afford, W_5, Afford, W_7dot>>),
     ErrorBody(<<Afford, W_5, Afford, W_abc>>),
     ErrorBody(<<Afford, W_minus3>>),
     ErrorBody(<<Afford, W_dot>>),
     ErrorBody(<<W_abc, Afford>>),
     ErrorBody(<<W_abc>>)}

EngineResponses ==
    {Transport, Http(401), Http(402), Http(403), Http(500),
     [Http(402) EXCEPT !.body = ErrorBody(<<Afford, W_7dot>>)],
     [Http(500) EXCEPT !.body = ErrorBody(<<Afford, W_7dot>>)],
     [Http(401) EXCEPT !.body = OkBody(JInt(1), JInt(2))],
     [Http(300) EXCEPT !.body = ErrorBody(<<Afford, W_7dot>>)],
     [Http(300) EXCEPT !.body = OkBody(JInt(1), JInt(2))],
     [Http(200) EXCEPT !.decode = "RequestsJSONDecodeError"],
     [Http(200) EXCEPT !.decode = "JSONDecodeError"]}
    \cup {Ok200(b) : b \in EngineBodies}

\* the max_tokens the settings hold when the process starts
InitMaxTokens == {0, 5}

InitEngine ==
    /\ InitCommon
    /\ loops = [l \in 1..MaxLoops |-> LoopUnborn]
    /\ oneshots = [i \in 1..MaxSends |-> OneShotUnborn]
    /\ \E m \in InitMaxTokens :
          config = [DEFAULT_CONFIG EXCEPT !.api_key = "key",
                                          !.max_tokens = JInt(m)]
    /\ config_file = config

\* a caller invokes make_api_request once the call before has returned
EngineCall(i) ==
    /\ oneshots[i].pc = "unborn"
    /\ \A j \in SendIds : j < i => oneshots[j].pc \in {"scheduled", "raised"}
    /\ \E p \in Prompts :
          oneshots' = [oneshots EXCEPT ![i].pc = "spawned", ![i].prompt = p]
    /\ UNCHANGED <<is_running, should_stop, loops, engine_vars, gui_vars,
                   history_vars>>

EngineBegin == \E i \in SendIds : OneShotBegin(i)

EngineReturn == \E i \in SendIds : \E r \in EngineResponses : OneShotReturn(i, r)

NextEngine ==
    \/ \E i \in SendIds : EngineCall(i)
    \/ EngineBegin
    \/ EngineReturn

SpecEngine == InitEngine /\ [][NextEngine]_vars

\* -------------------------------- the engine over the settings file's values
\* Config.load_config (settings.py lines 54-65) copies the value of every
\* known key from the settings file without looking at its type: max_tokens
\* is whatever JSON value the file holds, here a number, a string or null
SettingsMaxTokens == {JInt(0), JInt(5), JStr, JNull}

InitSettings ==
    /\ InitCommon
    /\ loops = [l \in 1..MaxLoops |-> LoopUnborn]
    /\ oneshots = [i \in 1..MaxSends |-> OneShotUnborn]
    /\ \E m \in SettingsMaxTokens :
          config = [DEFAULT_CONFIG EXCEPT !.api_key = "key", !.max_tokens = m]
    /\ config_file = config

SpecSettings == InitSettings /\ [][NextEngine]_vars

\* ------------------------------------------- the accumulator on its own
\* a caller passes a pair of non-negative integers to TokenUsage.update
TrackerUpdate(p, c) ==
    /\ Len(fed) < MaxUpdates
    /\ token_usage' = update(token_usage, JInt(p), JInt(c)).tu
    /\ fed' = Append(fed, <<p, c>>)
    /\ UNCHANGED <<is_running, should_stop, loops, oneshots, config,
                   config_file, status_text, gui_vars, issued, delivered,
                   start_ignored, costs>>

\* a caller invokes TokenUsage.reset
TrackerReset ==
    /\ token_usage' = reset(token_usage)
    /\ fed' = <<>>
    /\ UNCHANGED <<is_running, should_stop, loops, oneshots, config,
                   config_file, status_text, gui_vars, issued, delivered,
                   start_ignored, costs>>

InitTracker ==
    /\ InitCommon
    /\ loops = [l \in 1..MaxLoops |-> LoopUnborn]
    /\ oneshots = [i \in 1..MaxSends |-> OneShotUnborn]
    /\ config = DEFAULT_CONFIG
    /\ config_file = config

NextTracker ==
    \/ \E p, c \in 0..MaxTokens : TrackerUpdate(p, c)
    \/ TrackerReset

SpecTracker == InitTracker /\ [][NextTracker]_vars

\* ------------------------------------------- the accumulator and its prices
\* the prices the settings dialog can store
InputPrices == {0, 150}
OutputPrices == {0, 600}

\* SettingsDialog._save_settings: Config.set for every key, then save_config.
\* The dialog writes the other keys back as it loaded them; the two prices
\* are what the user typed.
SavePrices(input_price, output_price) ==
    /\ config' = [config EXCEPT !.input_price_per_million = input_price,
                                !.output_price_per_million = output_price]
    /\ config_file' = save_config(config')
    /\ UNCHANGED <<is_running, should_stop, loops, oneshots, token_usage,
                   status_text, gui_vars, history_vars>>

\* a caller (get_usage_summary, get_usage_dict) invokes calculate_cost
CalculateCost ==
    /\ Len(costs) < MaxCostCalls
    /\ costs' = Append(costs, calculate_cost(token_usage, config))
    /\ UNCHANGED <<is_running, should_stop, loops, oneshots, config,
                   config_file, token_usage, status_text, gui_vars, issued,
                   delivered, start_ignored, fed>>

\* the token counts of the calls priced here
CostTokens == {<<2, 1>>, <<0, 2>>}

CostUpdate(p, c) ==
    /\ Len(fed) < MaxCostUpdates
    /\ TrackerUpdate(p, c)

NextCost ==
    \/ \E t \in CostTokens : CostUpdate(t[1], t[2])
    \/ TrackerReset
    \/ \E input_price \in InputPrices, output_price \in OutputPrices :
          SavePrices(input_price, output_price)
    \/ CalculateCost

SpecCost == InitTracker /\ [][NextCost]_vars

\* ---------------------------------------------------------------- the GUI
\* str.strip()
Whitespace == {" ", "\n"}

RECURSIVE lstrip(_)
lstrip(t) == IF Len(t) > 0 /\ Head(t) \in Whitespace THEN lstrip(Tail(t)) ELSE t

RECURSIVE rstrip_ws(_)
rstrip_ws(t) ==
    IF Len(t) > 0 /\ t[Len(t)] \in Whitespace
    THEN rstrip_ws(SubSeq(t, 1, Len(t) - 1))
    ELSE t

strip(t) == rstrip_ws(lstrip(t))

\* an Optional[str]
None == [none |-> TRUE, text |-> <<>>]
Some(t) == [none |-> FALSE, text |-> t]

\* InputPanel.get_prompt
get_prompt == IF use_default_var THEN None ELSE Some(strip(prompt_text))

\* App._handle_send(prompt)
_handle_send(p) ==
    LET prompt == IF p.none THEN config.default_user_prompt ELSE p.text
    IN  IF strip(prompt) = <<>>
        THEN /\ status_text' = "Error: Prompt cannot be empty"
             /\ UNCHANGED <<send_button, oneshots>>
        ELSE IF config.api_key = ""
        THEN /\ status_text' = "Error: API key not set"
             /\ UNCHANGED <<send_button, oneshots>>
        ELSE /\ \E i \in SendIds :
                   /\ oneshots[i].pc = "unborn"
                   /\ \A j \in SendIds : j < i => oneshots[j].pc # "unborn"
                   /\ oneshots' = [oneshots EXCEPT ![i].pc = "spawned",
                                                   ![i].prompt = prompt]
             /\ send_button' = "disabled"
             /\ status_text' = "Sending request..."

\* InputPanel._send_prompt, the Send button's command
ClickSend ==
    /\ send_button = "normal"
    /\ IF ~get_prompt.none /\ get_prompt.text # <<>>
       THEN _handle_send(get_prompt)
       ELSE UNCHANGED <<send_button, oneshots, status_text>>
    /\ UNCHANGED <<is_running, should_stop, loops, config, config_file,
                   token_usage, start_stop_button, continuous_var,
                   use_default_var, prompt_text, response_panel, history_vars>>

\* App._handle_response run by the main loop for a one-shot request
\* (root.after, app.py line 549); the thread and its locals are gone
MainHandleResponse(i) ==
    /\ oneshots[i].pc = "scheduled"
    /\ _handle_response(oneshots[i].result)
    /\ oneshots' = [oneshots EXCEPT ![i] = [OneShotUnborn EXCEPT !.pc = "done"]]
    /\ UNCHANGED <<is_running, should_stop, loops, config, config_file,
                   token_usage, start_stop_button, continuous_var,
                   use_default_var, prompt_text, history_vars>>

\* App._start_continuous_requests
_start_continuous_requests ==
    LET p == get_prompt
        prompt == IF p.none THEN config.default_user_prompt ELSE p.text
    IN  IF strip(prompt) = <<>>
        THEN /\ status_text' = "Error: Prompt cannot be empty"
             /\ UNCHANGED <<start_stop_button, send_button, is_running,
                            should_stop, loops, start_ignored>>
        ELSE IF config.api_key = ""
        THEN /\ status_text' = "Error: API key not set"
             /\ UNCHANGED <<start_stop_button, send_button, is_running,
                            should_stop, loops, start_ignored>>
        ELSE /\ start_stop_button' = [start_stop_button EXCEPT !.text = "Stop"]
             /\ send_button' = "disabled"
             /\ start_continuous_requests(prompt)
             /\ UNCHANGED status_text

\* App._stop_continuous_requests; button_state is the state the caller has
\* left the Start/Stop button in
_stop_continuous_requests(button_state) ==
    /\ start_stop_button' = [state |-> button_state, text |-> "Start"]
    /\ send_button' = "normal"
    /\ stop_continuous_requests
    /\ UNCHANGED <<loops, start_ignored>>

\* App._toggle_continuous_requests, the Start/Stop button's command
ClickStartStop ==
    /\ start_stop_button.state = "normal"
    /\ IF is_running
       THEN _stop_continuous_requests(start_stop_button.state)
       ELSE _start_continuous_requests
    /\ UNCHANGED <<oneshots, config, config_file, token_usage, continuous_var,
                   use_default_var, prompt_text, response_panel, issued,
                   delivered, fed, costs>>

\* App._toggle_continuous_mode, the Continuous Mode checkbox's command
ToggleContinuousMode ==
    /\ continuous_var' = ~continuous_var
    /\ IF continuous_var'
       THEN /\ start_stop_button' = [start_stop_button EXCEPT !.state = "normal"]
            /\ UNCHANGED <<send_button, is_running, should_stop, status_text,
                           loops, start_ignored>>
       ELSE IF is_running
       THEN _stop_continuous_requests("disabled")
       ELSE /\ start_stop_button' = [start_stop_button EXCEPT !.state = "disabled"]
            /\ UNCHANGED <<send_button, is_running, should_stop, status_text,
                           loops, start_ignored>>
    /\ UNCHANGED <<oneshots, config, config_file, token_usage,
                   use_default_var, prompt_text, response_panel, issued,
                   delivered, fed, costs>>

\* InputPanel._toggle_default_prompt, the checkbox's command
ToggleUseDefault ==
    /\ use_default_var' = ~use_default_var
    /\ UNCHANGED <<is_running, should_stop, loops, oneshots, engine_vars,
                   send_button, start_stop_button, continuous_var, prompt_text,
                   response_panel, history_vars>>

\* what the user types into the prompt box (disabled while the default
\* prompt is selected)
PromptTexts == {<<>>, <<" ">>, <<"h", "i", "\n">>}

TypePrompt(t) ==
    /\ ~use_default_var
    /\ prompt_text' = t
    /\ UNCHANGED <<is_running, should_stop, loops, oneshots, engine_vars,
                   send_button, start_stop_button, continuous_var,
                   use_default_var, response_panel, history_vars>>

\* the settings the application starts with, as a settings file written by
\* SettingsDialog._save_settings leaves them; the delay between requests is 0
InitApiKeys == {"", "key"}
InitDefaultPrompts == {<<>>, <<"e", "s", "s", "a", "y">>}

InitApp ==
    /\ InitCommon
    /\ loops = [l \in 1..MaxAppLoops |-> LoopUnborn]
    /\ oneshots = [i \in 1..MaxAppSends |-> OneShotUnborn]
    /\ \E k \in InitApiKeys : \E d \in InitDefaultPrompts :
          config = [DEFAULT_CONFIG EXCEPT !.api_key = k,
                                          !.default_user_prompt = d,
                                          !.request_delay_seconds = 0]
    /\ config_file = config

OneShotStep(i) == OneShotBegin(i) \/ MainHandleResponse(i)

OneShotResponse(i) == \E r \in LoopResponses : OneShotReturn(i, r)

NextApp ==
    \/ ClickSend
    \/ ClickStartStop
    \/ ToggleContinuousMode
    \/ ToggleUseDefault
    \/ \E t \in PromptTexts : TypePrompt(t)
    \/ \E i \in SendIds : OneShotStep(i)
    \/ \E i \in SendIds : OneShotResponse(i)
    \/ \E l \in LoopIds : LoopStep(l)
    \/ \E l \in LoopIds : LoopResponse(l)

SpecApp == InitApp /\ [][NextApp]_vars

\* ------------------------------- the loop while the settings change
\* the delays the settings file holds: 0.05 s and 0.25 s
LoopDelays == {5, 25}

\* what the server answers: a completion, 402, and a body without choices
\* whose error message reads 'afford 7.'
HintResponses ==
    {Ok200(OkBody(JInt(1), JInt(1))), Http(402),
     Ok200(ErrorBody(<<Afford, W_7dot>>))}

\* what the user sets in the settings dialog while the loop runs
SavedSettings ==
    {[model |-> "m2", system_prompt |-> "terse", max_tokens |-> 9,
      request_delay_seconds |-> 10]}

\* SettingsDialog._save_settings: Config.set for every key, then save_config.
\* The dialog writes the other keys back as it loaded them; max_tokens comes
\* from an IntVar.
SaveRequestSettings(new) ==
    /\ config' = [config EXCEPT
                     !.model = new.model,
                     !.system_prompt = new.system_prompt,
                     !.max_tokens = JInt(new.max_tokens),
                     !.request_delay_seconds = new.request_delay_seconds]
    /\ config_file' = save_config(config')
    /\ UNCHANGED <<is_running, should_stop, loops, oneshots, token_usage,
                   status_text, gui_vars, history_vars>>

LoopHintResponse(l) == \E r \in HintResponses : LoopReturn(l, r)

InitLoopSettings ==
    /\ InitCommon
    /\ loops = [l \in 1..MaxAppLoops |-> LoopUnborn]
    /\ oneshots = [i \in 1..MaxAppSends |-> OneShotUnborn]
    /\ \E m \in SettingsMaxTokens : \E d \in LoopDelays :
          config = [DEFAULT_CONFIG EXCEPT !.api_key = "key",
                                          !.max_tokens = m,
                                          !.request_delay_seconds = d]
    /\ config_file = config

NextLoopSettings ==
    \/ StartCall
    \/ StopCall
    \/ \E l \in LoopIds : LoopStep(l)
    \/ \E l \in LoopIds : LoopHintResponse(l)
    \/ \E new \in SavedSettings : SaveRequestSettings(new)

SpecLoopSettings == InitLoopSettings /\ [][NextLoopSettings]_vars

\* ------------------------------ two callers of the accumulator at once
\* A one-shot thread and the loop thread can be inside make_api_request at
\* the same time, and neither the engine nor TokenUsage takes a lock.
\* TokenUsage.update is three augmented assignments, `self.x += y`: each reads
\* the attribute, adds, and writes the attribute, and another thread can run
\* between the read and the write.
UpdatePcs == {"load_input", "store_input", "load_output", "store_output",
              "load_count", "store_count"}

UpdateStep(th, tu) ==
    LET p == th.response.body.prompt_tokens.v
        c == th.response.body.completion_tokens.v
    IN  CASE th.pc = "load_input" ->
               [th |-> [th EXCEPT !.pc = "store_input",
                                  !.reg = tu.input_tokens + p],
                tu |-> tu]
          [] th.pc = "store_input" ->
               [th |-> [th EXCEPT !.pc = "load_output", !.reg = 0],
                tu |-> [tu EXCEPT !.input_tokens = th.reg]]
          [] th.pc = "load_output" ->
               [th |-> [th EXCEPT !.pc = "store_output",
                                  !.reg = tu.output_tokens + c],
                tu |-> tu]
          [] th.pc = "store_output" ->
               [th |-> [th EXCEPT !.pc = "load_count", !.reg = 0],
                tu |-> [tu EXCEPT !.output_tokens = th.reg]]
          [] th.pc = "load_count" ->
               [th |-> [th EXCEPT !.pc = "store_count",
                                  !.reg = tu.call_count + 1],
                tu |-> tu]
          [] th.pc = "store_count" ->
               [th |-> [th EXCEPT !.pc = "updated", !.reg = 0],
                tu |-> [tu EXCEPT !.call_count = th.reg]]

\* the completions the server answers with
RaceResponses == {Ok200(OkBody(JInt(1), JInt(2)))}

\* client.py lines 74-127: the POST returns a completion and
\* _handle_successful_response calls token_usage.update
RaceLoopReceive(l) ==
    /\ loops[l].pc = "inflight"
    /\ \E r \in RaceResponses :
          /\ loops' = [loops EXCEPT ![l].pc = "load_input", ![l].response = r]
          /\ fed' = Append(fed, <<r.body.prompt_tokens.v,
                                  r.body.completion_tokens.v>>)
    /\ UNCHANGED <<is_running, should_stop, oneshots, engine_vars, gui_vars,
                   issued, delivered, start_ignored, costs>>

\* a step of update in the loop's thread; after the last, lines 129-136: the
\* status and the return to run_requests
RaceLoopUpdate(l) ==
    /\ loops[l].pc \in UpdatePcs
    /\ LET out == UpdateStep(loops[l], token_usage)
       IN  /\ token_usage' = out.tu
           /\ IF out.th.pc = "updated"
              THEN /\ loops' = [loops EXCEPT
                                ![l] = [out.th EXCEPT
                                          !.pc = "callback",
                                          !.result = Result(TRUE, "content")]]
                   /\ status_text' = "Response received successfully."
              ELSE /\ loops' = [loops EXCEPT ![l] = out.th]
                   /\ UNCHANGED status_text
    /\ UNCHANGED <<is_running, should_stop, oneshots, config, config_file,
                   gui_vars, history_vars>>

\* App._handle_send, lines 531-536: a thread is started for _make_request
RaceSend(i) ==
    /\ oneshots[i].pc = "unborn"
    /\ \A j \in SendIds : j < i => oneshots[j].pc # "unborn"
    /\ \E p \in Prompts :
          oneshots' = [oneshots EXCEPT ![i].pc = "spawned", ![i].prompt = p]
    /\ UNCHANGED <<is_running, should_stop, loops, engine_vars, gui_vars,
                   history_vars>>

RaceOneShotReceive(i) ==
    /\ oneshots[i].pc = "inflight"
    /\ \E r \in RaceResponses :
          /\ oneshots' = [oneshots EXCEPT ![i].pc = "load_input",
                                          ![i].response = r]
          /\ fed' = Append(fed, <<r.body.prompt_tokens.v,
                                  r.body.completion_tokens.v>>)
    /\ UNCHANGED <<is_running, should_stop, loops, engine_vars, gui_vars,
                   issued, delivered, start_ignored, costs>>

\* a step of update in the one-shot thread; after the last, the status, the
\* return to _make_request and the callback queued for the main thread
RaceOneShotUpdate(i) ==
    /\ oneshots[i].pc \in UpdatePcs
    /\ LET out == UpdateStep(oneshots[i], token_usage)
       IN  /\ token_usage' = out.tu
           /\ IF out.th.pc = "updated"
              THEN /\ oneshots' = [oneshots EXCEPT
                                   ![i] = [out.th EXCEPT
                                             !.pc = "scheduled",
                                             !.result = Result(TRUE, "content")]]
                   /\ status_text' = "Response received successfully."
              ELSE /\ oneshots' = [oneshots EXCEPT ![i] = out.th]
                   /\ UNCHANGED status_text
    /\ UNCHANGED <<is_running, should_stop, loops, config, config_file,
                   gui_vars, history_vars>>

InitRace ==
    /\ InitCommon
    /\ loops = [l \in 1..MaxAppLoops |-> LoopUnborn]
    /\ oneshots = [i \in 1..MaxAppSends |-> OneShotUnborn]
    /\ config = [DEFAULT_CONFIG EXCEPT !.api_key = "key",
                                       !.request_delay_seconds = 0]
    /\ config_file = config

NextRace ==
    \/ StartCall
    \/ StopCall
    \/ \E l \in LoopIds : LoopStep(l)
    \/ \E l \in LoopIds : RaceLoopReceive(l)
    \/ \E l \in LoopIds : RaceLoopUpdate(l)
    \/ \E i \in SendIds : RaceSend(i)
    \/ \E i \in SendIds : OneShotBegin(i)
    \/ \E i \in SendIds : RaceOneShotReceive(i)
    \/ \E i \in SendIds : RaceOneShotUpdate(i)

SpecRace == InitRace /\ [][NextRace]_vars

\* ================================================== continuous controller
\* the requests of loop l whose result the callback has received
DeliveredBy(l) == Cardinality({k \in 1..Len(delivered) : delivered[k][1] = l})

Exited(l) == loops[l].pc \in {"exit", "stopped", "done"}

\* C1: over any sequence of start and stop calls at most one run_requests
\* loop is active (spawned, is_running not yet set to False by it), and a
\* start call made while is_running is True spawns no thread and changes
\* neither is_running nor should_stop.
C1_SingleActiveLoop ==
    /\ [](Cardinality(ActiveLoops) <= 1)
    /\ [][(is_running /\ StartCall) =>
            (is_running' /\ should_stop' = should_stop /\ loops' = loops)]_vars

\* a start call was made, and ignored, while a stop request was pending
C1_Witness ==
    /\ start_ignored
    /\ is_running /\ should_stop
    /\ Cardinality(ActiveLoops) = 1

C3_NoCallbackWhenIdle ==
    \A l \in LoopIds : loops[l].pc = "callback" => is_running

\* stop has been called, is_running has become False, results were delivered
C3_Witness ==
    /\ ~is_running /\ should_stop
    /\ Len(delivered) >= 1
    /\ \E l \in LoopIds : loops[l].pc = "stopped" /\ DeliveredBy(l) >= 1

\* C4: a loop that has read should_stop as True issues no further request
\* and exits; a request in flight at the stop completes and is delivered, so
\* a loop begins at most one request after stop has been called.
C4_StopObserved ==
    \A l \in LoopIds :
        /\ loops[l].saw_stop => loops[l].pc \in {"while", "exit", "stopped", "done"}
        /\ loops[l].after_stop <= 1
        /\ Exited(l) => DeliveredBy(l) = loops[l].call_count

\* a request begun after the stop call was completed and delivered
C4_Witness ==
    \E l \in LoopIds :
        /\ loops[l].after_stop = 1
        /\ loops[l].pc = "stopped"
        /\ DeliveredBy(l) = loops[l].call_count

\* C5 as claimed: whenever the controller is idle after a run, should_stop is
\* False as well as is_running.
C5_BothFlagsReset ==
    (~is_running /\ \E l \in LoopIds : Exited(l)) => ~should_stop

\* C5 as amended: is_running is True exactly while a loop is active, and
\* after a run the idle controller still has should_stop True: only the
\* next start resets it.
C5_StopFlagStaysSet ==
    /\ is_running = (ActiveLoops # {})
    /\ (Spawned = {} /\ status_text = "Ready") => ~should_stop
    /\ (~is_running /\ Spawned # {}) => should_stop

\* the controller is idle after a run
C5_Witness ==
    /\ ~is_running /\ should_stop
    /\ Spawned # {}
    /\ \A l \in Spawned : loops[l].pc = "done"
    /\ Len(delivered) >= 1

\* C6 as claimed: stop called while idle leaves is_running and should_stop
\* unchanged.
C6_IdleStopChangesNothing ==
    [][(~is_running /\ StopCall) =>
         (is_running' = is_running /\ should_stop' = should_stop)]_vars

\* C6 as amended: stop called while idle sets should_stop, leaves is_running
\* False and starts no loop; the next start clears should_stop, so its loop
\* does not exit at once.
C6_IdleStopSetsFlagOnly ==
    /\ [][(~is_running /\ StopCall) =>
            (should_stop' /\ ~is_running' /\ loops' = loops)]_vars
    /\ [][(~is_running /\ StartCall) => (is_running' /\ ~should_stop')]_vars
    /\ [](\A l \in LoopIds :
             (Exited(l) /\ loops[l].call_count = 0) => loops[l].saw_stop)

\* stop has just been called with no loop ever started
C6_Witness ==
    /\ Spawned = {}
    /\ ~is_running /\ should_stop
    /\ status_text = "Stopping continuous requests..."

\* C7: the loop's requests never overlap, the callback gets each result
\* once, in the order of the requests; the next request is issued only
\* after the callback has had the last one.
IsPrefix(a, b) == Len(a) <= Len(b) /\ SubSeq(b, 1, Len(a)) = a

C7_SerialInOrder ==
    /\ IsPrefix(delivered, issued)
    /\ Len(issued) - Len(delivered) <= 1
    /\ Cardinality(LoopsInFlight) <= 1
    /\ \A l \in LoopIds :
          loops[l].pc \in {"inflight", "callback"} =>
              Len(issued) = Len(delivered) + 1
    /\ \A j, k \in 1..Len(issued) : issued[j] = issued[k] => j = k

\* two requests were issued and delivered
C7_Witness ==
    /\ Len(delivered) = 2
    /\ delivered = issued

C18_NoRefractoryWait ==
    /\ [](\A l \in LoopIds :
            loops[l].slept <= DelayTicks(config.request_delay_seconds))
    /\ [][\A l \in LoopIds :
            /\ \A r \in LoopResponses :
                  (LoopReturn(l, r) /\ r.status = 402) =>
                      loops'[l].slept = loops[l].slept /\ loops[l].slept = 0
            /\ (/\ LoopCall(l)
                /\ loops[l].result.content = "API credits exhausted (402)") =>
                  loops[l].slept = DelayTicks(config.request_delay_seconds)]_vars

\* a loop whose first request ended with a 402 has slept the request delay,
\* a tenth of a second, and is about to issue its second request
C18_Witness ==
    \E l \in LoopIds :
        /\ loops[l].pc = "call"
        /\ loops[l].call_count = 1
        /\ loops[l].result.content = "API credits exhausted (402)"
        /\ loops[l].slept = 1
        /\ DelayTicks(config.request_delay_seconds) = 1
        /\ ~should_stop


\* ========================================================= request engine
\* C9 as claimed: a make_api_request that returns success has added its
\* response's prompt_tokens and completion_tokens (0 when absent) to the
\* totals and 1 to call_count; one that returns failure has left all three
\* counters as they were.
C9_UsageOnlyOnSuccess ==
    [][\A i \in SendIds : \A r \in EngineResponses :
          OneShotReturn(i, r) =>
              IF oneshots'[i].result.success
              THEN token_usage' =
                     [input_tokens |-> token_usage.input_tokens
                                         + GetOr0(r.body.prompt_tokens).v,
                      output_tokens |-> token_usage.output_tokens
                                         + GetOr0(r.body.completion_tokens).v,
                      call_count |-> token_usage.call_count + 1]
              ELSE token_usage' = token_usage]_vars

MalformedWithError(r) ==
    /\ r.status \in 1..399 /\ r.decode = "ok"
    /\ ~ChoicesUsable(r.body) /\ r.body.has_error

\* word k is "afford" and the token after it, stripped of trailing
\* punctuation, parses as an integer
HasHint(words, k) ==
    k < Len(words) /\ words[k] = Afford /\ IsIntLiteral(rstrip(words[k + 1]))

HintValue(words, k) == IntOf(rstrip(words[k + 1]))

C12_NoHintNoChange ==
    [][\A i \in SendIds : \A r \in EngineResponses :
          (/\ OneShotReturn(i, r) /\ MalformedWithError(r)
           /\ MentionsAfford(r.body.error_words)
           /\ \A k \in 1..Len(r.body.error_words) :
                 ~HasHint(r.body.error_words, k)) =>
              /\ oneshots'[i].pc = "scheduled"
              /\ ~oneshots'[i].result.success
              /\ config' = config
              /\ config_file' = config_file]_vars

\* a call sent with max_tokens 5 was answered "abc afford" and returned
\* failure with max_tokens still 5
C12_Witness ==
    \E i \in SendIds :
        /\ oneshots[i].pc = "scheduled"
        /\ oneshots[i].response.body.error_words = <<W_abc, Afford>>
        /\ ~oneshots[i].result.success
        /\ config.max_tokens = JInt(5)

\* C13 as claimed: a 2xx response whose parsed body lacks
\* choices[0].message.content (no choices, empty choices, a first choice
\* without message, a message without content) makes make_api_request return
\* success False and leaves the usage accumulator as it was.
C13_MissingContentIsFailure ==
    [][\A i \in SendIds : \A r \in EngineResponses :
          (/\ OneShotReturn(i, r)
           /\ r.status = 200 /\ r.decode = "ok"
           /\ r.body.choices \in {"absent", "empty", "no_message", "no_content"}) =>
              /\ ~oneshots'[i].result.success
              /\ token_usage' = token_usage]_vars

\* C14: a make_api_request that returns failure for anything but a 402 or a
\* malformed body whose error message mentions "afford" (transport error,
\* 401/403, another non-2xx status, undecodable body, malformed body without
\* hint, an exception while processing the body) changes no setting and does
\* not write the settings file.
C14_OtherFailuresKeepSettings ==
    [][\A i \in SendIds : \A r \in EngineResponses :
          (/\ OneShotReturn(i, r)
           /\ ~oneshots'[i].result.success
           /\ r.status # 402
           /\ ~(MalformedWithError(r) /\ MentionsAfford(r.body.error_words))) =>
              /\ config' = config
              /\ config_file' = config_file]_vars

\* a call sent with max_tokens 5 got a 401 and max_tokens is still 5
C14_Witness ==
    \E i \in SendIds :
        /\ oneshots[i].pc = "scheduled"
        /\ oneshots[i].response.status = 401
        /\ ~oneshots[i].result.success
        /\ oneshots[i].payload.max_tokens = 5
        /\ config.max_tokens = JInt(5) /\ config_file.max_tokens = JInt(5)

\* C16 as claimed: make_api_request always returns to its caller; whatever the
\* transport outcome, status, body and settings, no exception leaves it.
C16_AlwaysReturns ==
    \A i \in SendIds : oneshots[i].pc # "raised"

\* C17: a make_api_request makes exactly one requests.post: one is under way
\* while it waits for the response, and when it returns, whatever the outcome
\* (a rewritten max_tokens, a 402), it has made one and no more.
C17_OnePostPerCall ==
    /\ [](\A i \in SendIds :
            /\ oneshots[i].posts <= 1
            /\ oneshots[i].pc \in {"inflight", "scheduled"} =>
                  oneshots[i].posts = 1)
    /\ [][\A i \in SendIds : \A r \in EngineResponses :
            OneShotReturn(i, r) =>
                /\ oneshots'[i].pc = "scheduled"
                /\ oneshots'[i].posts = 1]_vars

\* a call whose response rewrote max_tokens from 5 to 7 has returned after
\* one POST
C17_Witness ==
    \E i \in SendIds :
        /\ oneshots[i].pc = "scheduled"
        /\ oneshots[i].posts = 1
        /\ oneshots[i].payload.max_tokens = 5
        /\ oneshots[i].response.body.error_words = <<Afford, W_7dot>>
        /\ config.max_tokens = JInt(7)

\* C19 as claimed: input_tokens, output_tokens and call_count are never
\* negative, and no step of the engine, whatever the response, makes any of
\* them smaller.
C19_CountersNeverDecrease ==
    /\ [](/\ token_usage.input_tokens >= 0
          /\ token_usage.output_tokens >= 0
          /\ token_usage.call_count >= 0)
    /\ [][/\ token_usage'.input_tokens >= token_usage.input_tokens
          /\ token_usage'.output_tokens >= token_usage.output_tokens
          /\ token_usage'.call_count >= token_usage.call_count]_vars

\* ====================================================== usage accumulator
\* the sum of component k of the pairs of a sequence
RECURSIVE SumOf(_, _)
SumOf(pairs, k) ==
    IF Len(pairs) = 0 THEN 0
    ELSE pairs[Len(pairs)][k] + SumOf(SubSeq(pairs, 1, Len(pairs) - 1), k)

\* C20: after any sequence of n pairs (p, c) of non-negative integers given
\* to update, starting from a fresh or a reset accumulator, input_tokens is
\* the sum of the p, output_tokens the sum of the c, and call_count is n.
C20_TotalsAreSums ==
    /\ token_usage.input_tokens = SumOf(fed, 1)
    /\ token_usage.output_tokens = SumOf(fed, 2)
    /\ token_usage.call_count = Len(fed)

\* three pairs were given and the totals are 3, 3 and 3 calls
C20_Witness ==
    /\ fed = <<<<2, 1>>, <<0, 2>>, <<1, 0>>>>
    /\ token_usage = [input_tokens |-> 3, output_tokens |-> 3, call_count |-> 3]


\* C21: calculate_cost changes neither the counters nor the settings, and what
\* it returns is the current totals priced at the current settings: input
\* tokens times the input price plus output tokens times the output price,
\* whatever the prices were when the tokens were counted.
C21_CostIsPureAndCurrent ==
    [][costs' # costs =>
         /\ token_usage' = token_usage
         /\ config' = config
         /\ config_file' = config_file
         /\ costs' = Append(costs,
                token_usage.input_tokens * config.input_price_per_million
                  + token_usage.output_tokens * config.output_price_per_million)]_vars

\* one update of (2, 1), priced at the defaults and again, with no update in
\* between, after the input price was set to 0
C21_Witness ==
    /\ fed = <<<<2, 1>>>>
    /\ costs = <<900, 600>>
    /\ config.input_price_per_million = 0

\* C22: a reset leaves all three counters at zero, whatever they were; the
\* cost of the reset accumulator is 0 at every price; resetting it again
\* changes nothing.
C22_ResetZeroes ==
    [][/\ (fed # <<>> /\ fed' = <<>>) =>
            /\ token_usage' = [input_tokens |-> 0, output_tokens |-> 0,
                               call_count |-> 0]
            /\ reset(token_usage') = token_usage'
            /\ \A input_price \in InputPrices, output_price \in OutputPrices :
                  calculate_cost(token_usage',
                      [config EXCEPT !.input_price_per_million = input_price,
                                     !.output_price_per_million = output_price]) = 0
       /\ (fed = <<>> /\ costs' # costs) => costs'[Len(costs')] = 0]_vars

\* a cost of 900 was reported, the accumulator was reset, and the cost
\* reported next was 0
C22_Witness ==
    /\ fed = <<>>
    /\ costs = <<900, 0>>
    /\ config.output_price_per_million = 600

\* a one-shot call returns to its caller
Returns(i) == oneshots[i].pc = "inflight" /\ oneshots'[i].pc = "scheduled"

\* what _handle_request_exception makes of a status
StatusMessage(status) ==
    IF status = 402 THEN "API credits exhausted (402)"
    ELSE IF status \in {401, 403} THEN "Authentication failed"
    ELSE "Request error"

\* the effect of a call classified from its status alone: a failure named
\* after the status, the accumulator untouched, max_tokens untouched or, for
\* 402, set to 0
ByStatusAlone(i) ==
    LET status == oneshots'[i].response.status
    IN  /\ oneshots'[i].result = Result(FALSE, StatusMessage(status))
        /\ token_usage' = token_usage
        /\ config'.max_tokens =
              IF status = 402 THEN JInt(0) ELSE config.max_tokens

\* C25 as claimed: a response whose status is not 2xx is classified from the
\* status alone, whatever its body holds.
C25_Non2xxByStatusAlone ==
    [][\A i \in SendIds :
         (/\ Returns(i)
          /\ oneshots'[i].response.status # 0
          /\ oneshots'[i].response.status \notin 200..299) => ByStatusAlone(i)]_vars

\* C25 as the code has it: a response whose status is 400 or above is
\* classified from the status alone; its body is not looked at for an
\* 'afford' hint or for usage, even when it carries choices or an error
\* message with 'afford' in it.
C25_ErrorStatusByStatusAlone ==
    [][\A i \in SendIds :
         (Returns(i) /\ oneshots'[i].response.status >= 400) => ByStatusAlone(i)]_vars

\* a capped request was answered 402 with 'afford 7.' in its body, and
\* max_tokens is 0, not 7
C25_Witness ==
    \E i \in SendIds :
        /\ oneshots[i].pc = "scheduled"
        /\ oneshots[i].response.status = 402
        /\ MentionsAfford(oneshots[i].response.body.error_words)
        /\ oneshots[i].payload.has_max_tokens
        /\ config.max_tokens = JInt(0)

\* ============================================================ application
\* C8 as claimed: at most one make_api_request is in flight at any time,
\* whatever the user does with Send, Start/Stop and the checkboxes.
C8_OneRequestInFlight ==
    Cardinality(LoopsInFlight) + Cardinality(SendsInFlight) <= 1


\* a thread slot the next request can take
FreeSend == \E i \in SendIds : oneshots[i].pc = "unborn"
FreeLoop == Cardinality(Spawned) < Cardinality(LoopIds)

DefaultSelected ==
    /\ use_default_var
    /\ strip(config.default_user_prompt) # <<>>
    /\ config.api_key # ""

\* C23 as claimed: with 'Use default prompt' selected and a non-empty default
\* configured, pressing Send starts a one-shot request whose prompt is the
\* configured default, and pressing Start starts a loop whose prompt is the
\* configured default.
C23_DefaultPromptSubstituted ==
    DefaultSelected =>
        /\ (send_button = "normal" /\ FreeSend) =>
              ENABLED (/\ ClickSend
                       /\ \E i \in SendIds :
                             /\ oneshots[i].pc = "unborn"
                             /\ oneshots'[i].pc = "spawned"
                             /\ oneshots'[i].prompt = config.default_user_prompt)
        /\ (start_stop_button.state = "normal" /\ ~is_running /\ FreeLoop) =>
              ENABLED (/\ ClickStartStop
                       /\ \E l \in LoopIds :
                             /\ loops[l].pc = "unborn"
                             /\ loops'[l].pc = "while"
                             /\ loops'[l].prompt = config.default_user_prompt)


\* the prompt the two buttons resolve: the configured default under the
\* 'use default prompt' sentinel, else the text typed
ResolvedPrompt ==
    IF use_default_var THEN config.default_user_prompt ELSE prompt_text

\* everything but the status line
but_status == <<is_running, should_stop, loops, oneshots, config, config_file,
                token_usage, gui_vars, history_vars>>

\* C24 as claimed: no thread ever carries a request whose prompt is empty
\* after trimming; and when the resolved prompt is empty, pressing Send and
\* pressing Start each set the status to 'Error: Prompt cannot be empty' and
\* change nothing else.
C24_EmptyPromptReported ==
    /\ \A i \in SendIds :
          oneshots[i].pc \in {"spawned", "inflight", "scheduled", "raised"}
              => strip(oneshots[i].prompt) # <<>>
    /\ \A l \in LoopIds :
          loops[l].pc # "unborn" => strip(loops[l].prompt) # <<>>
    /\ strip(ResolvedPrompt) = <<>> =>
          /\ send_button = "normal" =>
                ENABLED (/\ ClickSend
                         /\ status_text' = "Error: Prompt cannot be empty"
                         /\ UNCHANGED but_status)
          /\ (start_stop_button.state = "normal" /\ ~is_running) =>
                ENABLED (/\ ClickStartStop
                         /\ status_text' = "Error: Prompt cannot be empty"
                         /\ UNCHANGED but_status)


\* C26 as claimed: whenever no thread is inside TokenUsage.update, the three
\* counters are the sums over the calls that have updated them, however a
\* one-shot call and a loop call were interleaved.
C26_NoLostUpdate ==
    (/\ \A l \in LoopIds : loops[l].pc \notin UpdatePcs
     /\ \A i \in SendIds : oneshots[i].pc \notin UpdatePcs) =>
        /\ token_usage.input_tokens = SumOf(fed, 1)
        /\ token_usage.output_tokens = SumOf(fed, 2)
        /\ token_usage.call_count = Len(fed)


\* ================================================ the loop and the settings
\* thread l makes the step from pc a to pc b
LoopMoves(l, a, b) == loops[l].pc = a /\ loops'[l].pc = b

\* C27: every request of the loop is built from the settings as they are when
\* it is issued: model, system prompt and max_tokens are read for each call,
\* the delay is read after each call, and the prompt is the one given at
\* start; so a max_tokens written by the 'afford' correction during one call
\* is the cap of the next.
C27_BuiltFromCurrentSettings ==
    [][\A l \in LoopIds :
         /\ LoopMoves(l, "call", "inflight") =>
               loops'[l].payload =
                   [model |-> config.model,
                    system_prompt |-> config.system_prompt,
                    prompt |-> loops[l].prompt,
                    has_max_tokens |-> config.max_tokens.v > 0,
                    max_tokens |-> IF config.max_tokens.v > 0
                                   THEN config.max_tokens.v ELSE 0]
         /\ LoopMoves(l, "delay", "tick") =>
               loops'[l].delay = config.request_delay_seconds
         /\ loops[l].pc # "unborn" => loops'[l].prompt = loops[l].prompt]_vars

\* the second request of a loop is in flight with the cap 7 that the hint in
\* the answer to the first wrote
C27_Witness ==
    \E l \in LoopIds :
        /\ loops[l].pc = "inflight"
        /\ loops[l].call_count = 2
        /\ loops[l].payload.has_max_tokens
        /\ loops[l].payload.max_tokens = 7

\* floor(delay * 10) for a delay of d hundredths of a second, d >= 0
FloorTicks(d) == CHOOSE n \in 0..d : n * 10 <= d /\ d < (n + 1) * 10

\* C28: after a request the loop reads the delay and waits floor(delay * 10)
\* ticks of 0.1 s; it looks at the stop flag before each tick: with the flag
\* up it leaves the wait without sleeping again, with the flag down it sleeps
\* one tick; a wait that was not stopped has slept all its ticks.
C28_DelayHonoured ==
    [][\A l \in LoopIds :
         /\ LoopMoves(l, "delay", "tick") =>
               /\ loops[l].slept = 0
               /\ loops'[l].ticks = FloorTicks(config.request_delay_seconds)
         /\ (loops[l].pc = "tick" /\ loops'[l] # loops[l]) =>
               IF loops[l].ticks = 0
               THEN /\ loops[l].slept = FloorTicks(loops[l].delay)
                    /\ loops'[l].pc = "while"
               ELSE IF should_stop
               THEN /\ loops'[l].pc = "while"
                    /\ loops'[l].slept = loops[l].slept
               ELSE /\ loops'[l].pc = "tick"
                    /\ loops'[l].slept = loops[l].slept + 1
                    /\ loops'[l].ticks = loops[l].ticks - 1]_vars

\* a wait of 0.25 s is over after two ticks, no stop having been asked for
C28_Witness ==
    \E l \in LoopIds :
        /\ loops[l].pc = "tick"
        /\ loops[l].delay = 25
        /\ loops[l].ticks = 0
        /\ loops[l].slept = 2
        /\ ~should_stop

\* C29 as claimed: when no run_requests thread is alive, is_running is False.
C29_IdleWhenNoLoop ==
    (\A l \in LoopIds : loops[l].pc \in {"unborn", "done", "raised"}) => ~is_running

\* C30: a request of the loop has a max_tokens field exactly when the settings
\* hold a max_tokens above 0, and then with that value; a 402 sets and saves
\* max_tokens 0; and max_tokens leaves 0 only by a settings edit or by an
\* 'afford' hint in a malformed body.
C30_CapOnlyWhenPositive ==
    /\ [][\A l \in LoopIds :
            /\ LoopMoves(l, "call", "inflight") =>
                  /\ loops'[l].payload.has_max_tokens <=> config.max_tokens.v > 0
                  /\ loops'[l].payload.has_max_tokens =>
                        loops'[l].payload.max_tokens = config.max_tokens.v
            /\ (LoopMoves(l, "inflight", "callback")
                   /\ loops'[l].response.status = 402) =>
                  /\ config'.max_tokens = JInt(0)
                  /\ config_file'.max_tokens = JInt(0)]_vars
    /\ [][(config.max_tokens = JInt(0) /\ config'.max_tokens # JInt(0)) =>
            \/ \E new \in SavedSettings :
                  /\ config'.max_tokens = JInt(new.max_tokens)
                  /\ config'.model = new.model
            \/ \E l \in LoopIds :
                  /\ LoopMoves(l, "inflight", "callback")
                  /\ MalformedWithError(loops'[l].response)
                  /\ MentionsAfford(loops'[l].response.body.error_words)]_vars

\* the request after a 402 is in flight without a max_tokens field
C30_Witness ==
    \E l \in LoopIds :
        /\ loops[l].pc = "inflight"
        /\ loops[l].call_count = 2
        /\ loops[l].result.content = "API credits exhausted (402)"
        /\ ~loops[l].payload.has_max_tokens
        /\ config_file.max_tokens = JInt(0)

====
